---- MODULE Spec2Model ----
(***************************************************************************)
(* Model of the SIEM detection engine (src/siem/detectors.py): the rule   *)
(* list retained by DetectionEngine.__init__, the window store            *)
(* self.state, the three registered handlers and the generator returned   *)
(* by DetectionEngine.process, which the caller resumes or abandons.      *)
(*                                                                         *)
(* Time is counted in ticks of half a second, so that the truncation      *)
(* int(event.timestamp.timestamp()) of an alert id is not the identity.   *)
(* Floats (entropy_threshold, the Shannon entropy) are exact rationals:   *)
(* a float parameter is a numerator over FloatDenom.                      *)
(***************************************************************************)
EXTENDS Integers, Sequences, FiniteSets, TLC

(* ------------------------------ bounds -------------------------------- *)

\* events taken from the input over the life of one engine
MaxEvents == 3

\* event timestamps lie on the minute marks 0 .. MaxMinute
MaxMinute == 2

(* ------------------------- units and sentinels ------------------------ *)

TicksPerSecond == 2

SecondsPerMinute == 60

FloatDenom == 2

\* Python's None, as returned by dict.get for an absent key; no string of
\* the model equals it
None == "<None>"

RECURSIVE Pow(_, _)
Pow(b, n) == IF n <= 0 THEN 1 ELSE b * Pow(b, n - 1)

Range(s) == {s[i] : i \in 1..Len(s)}

(* ------------------------- rule parameter values ---------------------- *)

\* a value of the generic mapping rule.parameters: an int, a float (n is
\* the numerator over FloatDenom) or a string
PInt(n) == [kind |-> "int", n |-> n, s |-> ""]

PFloat(n) == [kind |-> "float", n |-> n, s |-> ""]

PStr(s) == [kind |-> "str", n |-> 0, s |-> s]

\* the strings int() parses
DecimalOf == [s \in {"1", "2", "3"} |-> CASE s = "1" -> 1 [] s = "2" -> 2 [] s = "3" -> 3]

\* params.get(name, default)
ParamGet(params, name, default) ==
    IF name \in DOMAIN params THEN params[name] ELSE default

\* mutant of PyInt: a string that is no number gives the handler's default
\* instead of an error
PyIntOrDefault(v) ==
    CASE v.kind = "int" -> [ok |-> TRUE, val |-> v.n]
      [] v.kind = "float" -> [ok |-> TRUE, val |-> v.n \div FloatDenom]
      [] OTHER ->
            IF v.s \in DOMAIN DecimalOf
            THEN [ok |-> TRUE, val |-> DecimalOf[v.s]]
            ELSE [ok |-> TRUE, val |-> 5]

\* int(v): truncates a float toward zero, parses a decimal string, raises
\* (ok = FALSE) on any other string
PyInt(v) ==
    CASE v.kind = "int" -> [ok |-> TRUE, val |-> v.n]
      [] v.kind = "float" ->
            [ok |-> TRUE,
             val |-> IF v.n >= 0 THEN v.n \div FloatDenom
                     ELSE -((-v.n) \div FloatDenom)]
      [] OTHER ->
            IF v.s \in DOMAIN DecimalOf
            THEN [ok |-> TRUE, val |-> DecimalOf[v.s]]
            ELSE [ok |-> FALSE, val |-> 0]

\* float(v), as a numerator over FloatDenom
PyFloat(v) ==
    CASE v.kind = "int" -> [ok |-> TRUE, val |-> v.n * FloatDenom]
      [] v.kind = "float" -> [ok |-> TRUE, val |-> v.n]
      [] OTHER ->
            IF v.s \in DOMAIN DecimalOf
            THEN [ok |-> TRUE, val |-> DecimalOf[v.s] * FloatDenom]
            ELSE [ok |-> FALSE, val |-> 0]

\* x == v for a string x and a parameter value v
StrEq(x, v) == v.kind = "str" /\ v.s = x

\* mutant of DetailsGet: an absent field gives None whatever the default
DetailsGetNone(details, field, default) ==
    IF field.kind = "str" /\ field.s \in DOMAIN details
    THEN details[field.s]
    ELSE None

\* details.get(field) where field is a parameter value: only a string can
\* be a key of details
DetailsGet(details, field, default) ==
    IF field.kind = "str" /\ field.s \in DOMAIN details
    THEN details[field.s]
    ELSE default

(* ------------------------------ windows ------------------------------- *)

\* state[key] of the defaultdict(deque) partition of one rule
Bucket(st, key) == IF key \in DOMAIN st THEN st[key] ELSE <<>>

SetBucket(st, key, bucket) ==
    [k \in DOMAIN st \cup {key} |-> IF k = key THEN bucket ELSE st[k]]

\* timedelta(minutes=window_minutes), in ticks
Minutes(window_minutes) == window_minutes * SecondsPerMinute * TicksPerSecond

\* mutant of _evict_old: `if` for `while`, one stale event is dropped
EvictOne(bucket, current_ts, window_minutes) ==
    IF bucket # <<>> /\ Head(bucket).timestamp < current_ts - Minutes(window_minutes)
    THEN Tail(bucket)
    ELSE bucket

RECURSIVE _evict_old(_, _, _)
_evict_old(bucket, current_ts, window_minutes) ==
    LET cutoff == current_ts - Minutes(window_minutes)
    IN  IF bucket # <<>> /\ Head(bucket).timestamp < cutoff
        THEN _evict_old(Tail(bucket), current_ts, window_minutes)
        ELSE bucket

\* int(event.timestamp.timestamp())
IntSeconds(ts) == ts \div TicksPerSecond

AlertId(rule, key, event) == <<rule.id, key, IntSeconds(event.timestamp)>>

(* --------------------------- Shannon entropy -------------------------- *)

\* the characters of the strings a query field takes in the model
Chars ==
    [s \in {"", "a", "ab", "aab", "abcd"} |->
        CASE s = "" -> <<>>
          [] s = "a" -> <<"a">>
          [] s = "ab" -> <<"a", "b">>
          [] s = "aab" -> <<"a", "a", "b">>
          [] s = "abcd" -> <<"a", "b", "c", "d">>]

StrLen(s) == Len(Chars[s])

CharCount(s, c) == Cardinality({i \in 1..StrLen(s) : Chars[s][i] = c})

RECURSIVE CountProduct(_, _)
\* the product of count^count over the characters cs of s
CountProduct(s, cs) ==
    IF cs = {} THEN 1
    ELSE LET c == CHOOSE x \in cs : TRUE
         IN  Pow(CharCount(s, c), CharCount(s, c)) * CountProduct(s, cs \ {c})

\* the sign of _shannon_entropy(value) - num/FloatDenom for a non-empty
\* value.  With n = len(value) and counts c_i the entropy is
\*   log2(n) - (1/n) * SUM c_i*log2(c_i),
\* which lies in [0, log2(n)], so that it is below a threshold above
\* log2(n), above a negative one, and otherwise compares to num/FloatDenom
\* as (n^n)^FloatDenom compares to 2^(n*num) * (PROD c_i^c_i)^FloatDenom.
\* The floats of the code agree with the exact value on the strings of
\* Chars: their entropy is either a sum of exact binary fractions or
\* irrational.
EntropyCompare(value, num) ==
    LET n == StrLen(value)
        p == CountProduct(value, Range(Chars[value]))
        lhs == Pow(Pow(n, n), FloatDenom)
        rhs == Pow(2, n * num) * Pow(p, FloatDenom)
    IN  IF num < 0 THEN 1
        ELSE IF Pow(2, num) > Pow(n, FloatDenom) THEN -1
        ELSE IF lhs > rhs THEN 1
        ELSE IF lhs = rhs THEN 0
        ELSE -1

(* ------------------------------ handlers ------------------------------ *)

\* What a handler has done when it next gives control back: st is the
\* rule's partition of the window store, out the alert it yields (at most
\* one), clear the keys whose bucket.clear() follows the yield and runs
\* only when the generator is resumed, raised an int()/float() error.
Returned(st) == [st |-> st, out |-> <<>>, clear |-> {}, raised |-> FALSE]

Raised(st) == [st |-> st, out |-> <<>>, clear |-> {}, raised |-> TRUE]

Yielded(st, alert, clear) ==
    [st |-> st, out |-> <<alert>>, clear |-> clear, raised |-> FALSE]

Alert(rule, key, event, count, events) ==
    [id |-> AlertId(rule, key, event),
     priority |-> rule.severity,
     count |-> count,
     events |-> events]

\* the values of distinct_field over a bucket (None where it is absent)
UniqueValues(bucket, distinct_field) ==
    {DetailsGet(bucket[i].details, distinct_field, None) : i \in 1..Len(bucket)}

\* mutant of Triggered: the comparison made strict
TriggeredAbove(count, threshold) == count > threshold

\* `len(bucket) >= threshold`, `len(unique_values) >= threshold`
Triggered(count, threshold) == count >= threshold

\* mutant of Anomalous: both comparisons made strict
AnomalousAbove(domain, length_threshold, entropy_threshold) ==
    \/ StrLen(domain) > length_threshold
    \/ EntropyCompare(domain, entropy_threshold) > 0

\* `len(domain) >= length_threshold or _shannon_entropy(domain) >= entropy_threshold`
Anomalous(domain, length_threshold, entropy_threshold) ==
    \/ StrLen(domain) >= length_threshold
    \/ EntropyCompare(domain, entropy_threshold) >= 0

_handle_failed_login(st, rule, event) ==
    LET params == rule.parameters
        category == ParamGet(params, "event_category", PStr("auth"))
        match_field == ParamGet(params, "match_field", PStr("result"))
        match_value == ParamGet(params, "match_value", PStr("failed"))
        group_by == ParamGet(params, "group_by", PStr("username"))
        threshold == PyInt(ParamGet(params, "threshold", PInt(5)))
        window_minutes == PyInt(ParamGet(params, "window_minutes", PInt(10)))
        key == DetailsGet(event.details, group_by, "unknown")
        bucket == _evict_old(Append(Bucket(st, key), event), event.timestamp,
                             window_minutes.val)
        st1 == SetBucket(st, key, bucket)
    IN  IF ~threshold.ok \/ ~window_minutes.ok THEN Raised(st)
        ELSE IF ~StrEq(event.category, category) THEN Returned(st)
        ELSE IF ~StrEq(DetailsGet(event.details, match_field, None), match_value)
             THEN Returned(st)
        ELSE IF Triggered(Len(bucket), threshold.val)
             THEN Yielded(st1, Alert(rule, key, event, Len(bucket), bucket), {key})
        ELSE Returned(st1)

_handle_port_scan(st, rule, event) ==
    LET params == rule.parameters
        category == ParamGet(params, "event_category", PStr("network"))
        group_by == ParamGet(params, "group_by", PStr("src_ip"))
        distinct_field == ParamGet(params, "distinct_field", PStr("dest_port"))
        threshold == PyInt(ParamGet(params, "threshold", PInt(15)))
        window_minutes == PyInt(ParamGet(params, "window_minutes", PInt(5)))
        key == DetailsGet(event.details, group_by, "unknown")
        bucket == _evict_old(Append(Bucket(st, key), event), event.timestamp,
                             window_minutes.val)
        st1 == SetBucket(st, key, bucket)
        unique_values == UniqueValues(bucket, distinct_field)
    IN  IF ~threshold.ok \/ ~window_minutes.ok THEN Raised(st)
        ELSE IF ~StrEq(event.category, category) THEN Returned(st)
        ELSE IF Triggered(Cardinality(unique_values), threshold.val)
             THEN Yielded(st1,
                          Alert(rule, key, event, Cardinality(unique_values), bucket),
                          {key})
        ELSE Returned(st1)

\* mutant of _handle_dns_anomaly: the handler keeps a window per domain
WindowedDnsAnomaly(st, rule, event) ==
    LET params == rule.parameters
        category == ParamGet(params, "event_category", PStr("dns"))
        length_threshold == PyInt(ParamGet(params, "length_threshold", PInt(45)))
        entropy_threshold ==
            PyFloat(ParamGet(params, "entropy_threshold", PFloat(7)))
        domain == DetailsGet(event.details, PStr("query"), None)
        st1 == SetBucket(st, domain, Append(Bucket(st, domain), event))
    IN  IF ~length_threshold.ok \/ ~entropy_threshold.ok THEN Raised(st)
        ELSE IF ~StrEq(event.category, category) THEN Returned(st)
        ELSE IF domain = None \/ domain = "" THEN Returned(st)
        ELSE IF Anomalous(domain, length_threshold.val, entropy_threshold.val)
             THEN Yielded(st1, Alert(rule, domain, event, 1, <<event>>), {})
        ELSE Returned(st1)

_handle_dns_anomaly(st, rule, event) ==
    LET params == rule.parameters
        category == ParamGet(params, "event_category", PStr("dns"))
        length_threshold == PyInt(ParamGet(params, "length_threshold", PInt(45)))
        entropy_threshold ==
            PyFloat(ParamGet(params, "entropy_threshold", PFloat(7)))
        domain == DetailsGet(event.details, PStr("query"), None)
    IN  IF ~length_threshold.ok \/ ~entropy_threshold.ok THEN Raised(st)
        ELSE IF ~StrEq(event.category, category) THEN Returned(st)
        ELSE IF domain = None \/ domain = "" THEN Returned(st)
        ELSE IF Anomalous(domain, length_threshold.val, entropy_threshold.val)
             THEN Yielded(st, Alert(rule, domain, event, 1, <<event>>), {})
        ELSE Returned(st)

\* the rule types _HANDLERS registers
_HANDLERS == {"failed_login_threshold", "port_scan", "dns_anomaly"}

\* mutant of Cleared: the clear empties every bucket of the rule
ClearedAll(st, keys) ==
    [k \in DOMAIN st |-> IF keys # {} THEN <<>> ELSE st[k]]

\* mutant of Cleared: the bucket is left as it is
NotCleared(st, keys) == st

\* bucket.clear() of every key of the frame
Cleared(st, keys) == [k \in DOMAIN st |-> IF k \in keys THEN <<>> ELSE st[k]]

\* mutant of Retained: the enabled rules are kept in reverse order
RetainedReversed(rules) ==
    LET kept == SelectSeq(rules, LAMBDA rule : rule.enabled)
    IN  [i \in 1..Len(kept) |-> kept[Len(kept) + 1 - i]]

\* mutant of Retained: the enabled flag is not looked at
RetainedAll(rules) == rules

\* DetectionEngine.__init__: self.rules
Retained(rules) == SelectSeq(rules, LAMBDA rule : rule.enabled)

\* self.state[rule.id]: the defaultdict creates the partition when read
Partition(state, id) == IF id \in DOMAIN state THEN state[id] ELSE <<>>

SetPartition(state, id, st) ==
    [i \in DOMAIN state \cup {id} |-> IF i = id THEN st ELSE state[i]]

(* ------------------------- rules and events --------------------------- *)

Rule(id, rule_type, enabled, parameters) ==
    [id |-> id, rule_type |-> rule_type, enabled |-> enabled,
     severity |-> "high", parameters |-> parameters]

FailedLogin(id, threshold, window_minutes) ==
    Rule(id, "failed_login_threshold", TRUE,
         [threshold |-> threshold, window_minutes |-> window_minutes])

PortScan(id, threshold, window_minutes) ==
    Rule(id, "port_scan", TRUE,
         [threshold |-> threshold, window_minutes |-> window_minutes])

DnsAnomaly(id, length_threshold, entropy_threshold) ==
    Rule(id, "dns_anomaly", TRUE,
         [length_threshold |-> length_threshold,
          entropy_threshold |-> entropy_threshold])

Disabled(rule) == [rule EXCEPT !.enabled = FALSE]

\* the instants the events of the model carry: the first two minute marks
\* and the last one
Timestamps == {0, Minutes(1), Minutes(MaxMinute)}

At(category, details, stamps) ==
    {[timestamp |-> t, category |-> category, details |-> details] : t \in stamps}

Failed(user, stamps) == At("auth", [result |-> "failed", username |-> user], stamps)

Probe(ip, port, stamps) == At("network", [src_ip |-> ip, dest_port |-> port], stamps)

Query(domain, stamps) == At("dns", [query |-> domain], stamps)

\* A scenario is a rule file (config), the events the input may hold
\* (feed) and the number of events the input holds at most (depth).
Scenario(config, feed, depth) == [config |-> config, feed |-> feed, depth |-> depth]

\* one threshold-count rule and one user, to twice the threshold and more
RepeatScenarios ==
    {Scenario(<<FailedLogin("r1", PInt(tw[1]), PInt(tw[2]))>>,
              Failed("alice", Timestamps), MaxEvents + tw[1]) :
        tw \in {<<1, 0>>, <<2, 1>>, <<3, 1>>}}

\* one threshold-count rule, two users, a login that succeeded, a login
\* without a username, a login without a result, and an event of another
\* category
LoginScenarios ==
    {Scenario(<<FailedLogin("r1", PInt(2), PInt(1))>>,
              Failed("alice", Timestamps) \cup Failed("bob", Timestamps)
                \cup At("auth", [result |-> "ok", username |-> "alice"], {0})
                \cup At("auth", [result |-> "failed"], {0})
                \cup At("auth", [username |-> "alice"], {0})
                \cup Probe("h1", "22", {0}),
              MaxEvents)}

\* one distinct-value rule; probes of three ports, a probe without a port
\* and a probe from another host
ScanScenarios ==
    {Scenario(<<PortScan("p1", PInt(tw[1]), PInt(tw[2]))>>,
              Probe("h1", "22", Timestamps)
                \cup Probe("h1", "80", {0, Minutes(MaxMinute)})
                \cup Probe("h1", "443", {Minutes(MaxMinute)})
                \cup At("network", [src_ip |-> "h1"], {Minutes(1)})
                \cup Probe("h2", "22", {0}),
              MaxEvents) :
        tw \in {<<1, 0>>, <<2, 1>>, <<3, 2>>}}

\* one anomaly rule; queries at, below and above each threshold, an empty
\* query, an event without a query and an event of another category
DnsScenarios ==
    {Scenario(<<DnsAnomaly("d1", PInt(lh[1]), PFloat(lh[2]))>>,
              UNION {Query(d, {0}) : d \in {"", "a", "ab", "aab", "abcd"}}
                \cup Query("ab", {Minutes(1)})
                \cup At("dns", [client |-> "h1"], {0})
                \cup Failed("alice", {0}),
              MaxEvents) :
        lh \in {<<3, 2>>, <<45, 7>>, <<5, 4>>, <<0, 9>>}}

\* several rules on the same events: a disabled rule, a rule of a type
\* that is not registered, and rules that alert on the same event
MixedScenarios ==
    {Scenario(<<Disabled(FailedLogin("r0", PInt(1), PInt(0))),
                FailedLogin("r1", PInt(2), PInt(1)),
                Rule("u1", "beaconing", TRUE, [threshold |-> PInt(1)]),
                FailedLogin("r2", PInt(1), PInt(0)),
                Disabled(DnsAnomaly("d0", PInt(1), PFloat(0))),
                DnsAnomaly("d1", PInt(2), PFloat(9))>>,
              Failed("alice", Timestamps) \cup Query("ab", {0}),
              MaxEvents)}

\* rules whose numeric parameter is a string: "2" is coerced, "many" is
\* not; a rule that alerts on every failed login stands before and after
CoercionScenarios ==
    {Scenario(<<FailedLogin("r1", PInt(1), PInt(0)), bad,
                FailedLogin("r2", PInt(1), PInt(0))>>,
              Failed("alice", {0, Minutes(1)}) \cup Query("ab", {0}),
              MaxEvents) :
        bad \in {FailedLogin("b1", PStr("many"), PInt(1)),
                 FailedLogin("b2", PStr("2"), PStr("many")),
                 PortScan("b3", PStr("many"), PInt(1)),
                 PortScan("b4", PFloat(3), PStr("many")),
                 DnsAnomaly("b5", PStr("many"), PFloat(2)),
                 DnsAnomaly("b6", PStr("2"), PStr("many")),
                 FailedLogin("g1", PStr("2"), PFloat(3))}}

\* one distinct-value rule whose parameters name a match field; probes
\* with the match value, with another value, without the match field and
\* without the source address, and an event of another category
FilterScenarios ==
    {Scenario(<<Rule("p2", "port_scan", TRUE,
                     [threshold |-> PInt(2), window_minutes |-> PInt(1),
                      match_field |-> PStr("proto"), match_value |-> PStr("tcp")])>>,
              At("network", [src_ip |-> "h1", dest_port |-> "22", proto |-> "tcp"], {0})
                \cup At("network", [src_ip |-> "h1", dest_port |-> "80", proto |-> "udp"], {0})
                \cup At("network", [src_ip |-> "h1", dest_port |-> "443"], {0})
                \cup At("network", [dest_port |-> "22", proto |-> "tcp"], {0})
                \cup Failed("alice", {0}),
              MaxEvents)}

Scenarios ==
    RepeatScenarios \cup LoginScenarios \cup ScanScenarios \cup DnsScenarios
      \cup MixedScenarios \cup CoercionScenarios \cup FilterScenarios

(* ------------------------------- state -------------------------------- *)

VARIABLES
    scenario,   \* the rule file and the input of this run (never changes)
    rules,      \* DetectionEngine.rules
    state,      \* DetectionEngine.state: rule id -> key -> bucket
    pc,         \* where the generator of process() stands
    ri,         \* the position in self.rules of the rule being evaluated
    frame,      \* the keys a handler suspended at its yield has yet to clear
    log,        \* history: the events taken from the input, in order
    alerts,     \* history: the alerts delivered to the caller, in order
    abandoned,  \* history: a generator has been dropped before its end
    split       \* history, kept by ProcessAgain only: the number of events
                \* taken before the latest call of process() that followed
                \* a call consumed to its end (0: no such call)

vars == <<scenario, rules, state, pc, ri, frame, log, alerts, abandoned, split>>

Init ==
    /\ scenario \in Scenarios
    /\ rules = Retained(scenario.config)
    /\ state = <<>>
    /\ pc = "idle"
    /\ ri = 0
    /\ frame = {}
    /\ log = <<>>
    /\ alerts = <<>>
    /\ abandoned = FALSE
    /\ split = 0

\* the event of the running iteration of `for event in events`
CurEvent == log[Len(log)]

\* the caller calls engine.process(events)
\* mutant of Call: every call of process() starts with empty windows
CallFresh(recorded) ==
    /\ pc \in {"idle", "done", "closed", "raised"}
    /\ pc' = "loop"
    /\ ri' = 0
    /\ state' = <<>>
    /\ split' = IF recorded /\ pc = "done" THEN Len(log) ELSE split
    /\ UNCHANGED <<scenario, rules, frame, log, alerts, abandoned>>

\* engine.process(events) on an engine whose previous generator, if any,
\* has ended: the window store is the one the engine holds
Call(recorded) ==
    /\ pc \in {"idle", "done", "closed", "raised"}
    /\ pc' = "loop"
    /\ ri' = 0
    /\ split' = IF recorded /\ pc = "done" THEN Len(log) ELSE split
    /\ UNCHANGED <<scenario, rules, state, frame, log, alerts, abandoned>>

Process == Call(FALSE)

\* the same call, with its place in the input recorded
ProcessAgain == Call(TRUE)

\* `for rule in self.rules` moves past rule i, and at the end of the list
\* control is back at `for event in events`
Advance(i) ==
    IF i < Len(rules) THEN pc' = "rules" /\ ri' = i + 1
    ELSE pc' = "loop" /\ ri' = 0

\* `for event in events` takes the next event of the input
NextEvent ==
    /\ pc = "loop"
    /\ Len(log) < scenario.depth
    /\ \E e \in scenario.feed :
          log' = Append(log, [timestamp |-> e.timestamp, category |-> e.category,
                              details |-> e.details, n |-> Len(log) + 1])
    /\ Advance(0)
    /\ UNCHANGED <<scenario, split, rules, state, frame, alerts, abandoned>>

\* the input is at its end: the generator returns
Exhausted ==
    /\ pc = "loop"
    /\ pc' = "done"
    /\ UNCHANGED <<scenario, split, rules, state, ri, frame, log, alerts, abandoned>>

\* mutant of SkipRule: `_HANDLERS[rule.rule_type]`, a KeyError for a rule
\* type that is not registered
SkipRuleRaises ==
    /\ pc = "rules"
    /\ rules[ri].rule_type \notin _HANDLERS
    /\ pc' = "raised"
    /\ UNCHANGED <<scenario, split, rules, state, ri, frame, log, alerts, abandoned>>

\* _HANDLERS.get(rule.rule_type) finds nothing: continue
SkipRule ==
    /\ pc = "rules"
    /\ rules[ri].rule_type \notin _HANDLERS
    /\ Advance(ri)
    /\ UNCHANGED <<scenario, split, rules, state, frame, log, alerts, abandoned>>

\* self.state[rule.id] of the rule being evaluated
CurPartition == Partition(state, rules[ri].id)

\* mutant of Run: an error of the handler ends the evaluation of that rule
\* only, and the loop goes on with the next rule
RunContinues(rule_type, r) ==
    /\ pc = "rules"
    /\ rules[ri].rule_type = rule_type
    /\ state' = SetPartition(state, rules[ri].id, r.st)
    /\ IF r.raised
       THEN Advance(ri) /\ frame' = {} /\ alerts' = alerts
       ELSE IF r.out # <<>>
       THEN /\ pc' = "yield"
            /\ ri' = ri
            /\ frame' = r.clear
            /\ alerts' = Append(alerts, [alert |-> r.out[1], rule |-> ri,
                                         at |-> Len(log)])
       ELSE Advance(ri) /\ frame' = {} /\ alerts' = alerts
    /\ UNCHANGED <<scenario, split, rules, log, abandoned>>

\* yield from handler(self.state[rule.id], rule, event), up to the first
\* of: the handler's yield, its return, its error; r is what the handler
\* has done by then
Run(rule_type, r) ==
    /\ pc = "rules"
    /\ rules[ri].rule_type = rule_type
    /\ state' = SetPartition(state, rules[ri].id, r.st)
    /\ IF r.raised
       THEN pc' = "raised" /\ ri' = ri /\ frame' = {} /\ alerts' = alerts
       ELSE IF r.out # <<>>
       THEN /\ pc' = "yield"
            /\ ri' = ri
            /\ frame' = r.clear
            /\ alerts' = Append(alerts, [alert |-> r.out[1], rule |-> ri,
                                         at |-> Len(log)])
       ELSE Advance(ri) /\ frame' = {} /\ alerts' = alerts
    /\ UNCHANGED <<scenario, split, rules, log, abandoned>>

FailedLoginStep ==
    Run("failed_login_threshold",
        _handle_failed_login(CurPartition, rules[ri], CurEvent))

PortScanStep ==
    Run("port_scan", _handle_port_scan(CurPartition, rules[ri], CurEvent))

DnsAnomalyStep ==
    Run("dns_anomaly", _handle_dns_anomaly(CurPartition, rules[ri], CurEvent))

\* the caller asks for the next alert: the suspended handler runs on from
\* its yield (bucket.clear()) and returns
Resume ==
    /\ pc = "yield"
    /\ state' = SetPartition(state, rules[ri].id,
                             Cleared(Partition(state, rules[ri].id), frame))
    /\ frame' = {}
    /\ Advance(ri)
    /\ UNCHANGED <<scenario, split, rules, log, alerts, abandoned>>

\* the caller drops the generator while it is suspended at a yield: the
\* statements after the yield never run
Abandon ==
    /\ pc = "yield"
    /\ pc' = "closed"
    /\ ri' = 0
    /\ frame' = {}
    /\ abandoned' = TRUE
    /\ UNCHANGED <<scenario, split, rules, state, log, alerts>>

Next ==
    \/ Process
    \/ NextEvent
    \/ Exhausted
    \/ SkipRule
    \/ FailedLoginStep
    \/ PortScanStep
    \/ DnsAnomalyStep
    \/ Resume
    \/ Abandon

Spec == Init /\ [][Next]_vars

\* the runs in which the calls of process() are told apart: the inputs
\* with several rules and the input of the filtered distinct-value rule
SplitScenarios == MixedScenarios \cup FilterScenarios

InitSplit == Init /\ scenario \in SplitScenarios

NextSplit ==
    \/ ProcessAgain
    \/ NextEvent
    \/ Exhausted
    \/ SkipRule
    \/ FailedLoginStep
    \/ PortScanStep
    \/ DnsAnomalyStep
    \/ Resume
    \/ Abandon

SplitSpec == InitSplit /\ [][NextSplit]_vars

(* ----------------- a run consumed to its end, as a value --------------- *)

\* handler(state, rule, event) for a registered rule type
Handle(st, rule, event) ==
    CASE rule.rule_type = "failed_login_threshold" -> _handle_failed_login(st, rule, event)
      [] rule.rule_type = "port_scan" -> _handle_port_scan(st, rule, event)
      [] rule.rule_type = "dns_anomaly" -> _handle_dns_anomaly(st, rule, event)

RECURSIVE ProcessRules(_, _, _, _)
\* the inner loop of process() from rule i on, every yield resumed: the
\* window store and the alerts it leaves, and whether a handler raised
ProcessRules(rs, i, store, event) ==
    IF i > Len(rs) THEN [state |-> store, alerts |-> <<>>, raised |-> FALSE]
    ELSE IF rs[i].rule_type \notin _HANDLERS THEN ProcessRules(rs, i + 1, store, event)
    ELSE LET r == Handle(Partition(store, rs[i].id), rs[i], event)
             rest == ProcessRules(rs, i + 1,
                                  SetPartition(store, rs[i].id, Cleared(r.st, r.clear)),
                                  event)
         IN  IF r.raised
             THEN [state |-> SetPartition(store, rs[i].id, r.st),
                   alerts |-> <<>>, raised |-> TRUE]
             ELSE [rest EXCEPT !.alerts = r.out \o rest.alerts]

RECURSIVE ProcessEvents(_, _, _, _)
\* the outer loop of process() from event j on
ProcessEvents(rs, events, j, store) ==
    IF j > Len(events) THEN [state |-> store, alerts |-> <<>>, raised |-> FALSE]
    ELSE LET one == ProcessRules(rs, 1, store, events[j])
             rest == ProcessEvents(rs, events, j + 1, one.state)
         IN  IF one.raised THEN one
             ELSE [rest EXCEPT !.alerts = one.alerts \o rest.alerts]

\* list(DetectionEngine(config).process(events))
ProcessAll(config, events) == ProcessEvents(Retained(config), events, 1, <<>>)

(* ===================== the claims and their checks ==================== *)

Default(rule_type, name) ==
    CASE rule_type = "failed_login_threshold" /\ name = "threshold" -> PInt(5)
      [] rule_type = "failed_login_threshold" /\ name = "window_minutes" -> PInt(10)
      [] rule_type = "port_scan" /\ name = "threshold" -> PInt(15)
      [] rule_type = "port_scan" /\ name = "window_minutes" -> PInt(5)
      [] rule_type = "dns_anomaly" /\ name = "length_threshold" -> PInt(45)
      [] rule_type = "dns_anomaly" /\ name = "entropy_threshold" -> PFloat(7)
      [] rule_type = "failed_login_threshold" /\ name = "match_field" -> PStr("result")
      [] rule_type = "failed_login_threshold" /\ name = "match_value" -> PStr("failed")
      [] rule_type = "failed_login_threshold" /\ name = "event_category" -> PStr("auth")
      [] rule_type = "port_scan" /\ name = "event_category" -> PStr("network")
      [] rule_type = "dns_anomaly" /\ name = "event_category" -> PStr("dns")
      [] rule_type = "failed_login_threshold" /\ name = "group_by" -> PStr("username")
      [] rule_type = "port_scan" /\ name = "group_by" -> PStr("src_ip")
      [] rule_type = "port_scan" /\ name = "distinct_field" -> PStr("dest_port")
      [] OTHER -> PStr("")

\* the parameter of a rule as its handler reads it
Param(rule, name) == ParamGet(rule.parameters, name, Default(rule.rule_type, name))

Windowed(rule) == rule.rule_type \in {"failed_login_threshold", "port_scan"}

\* the parameter value is a number or a string that spells one
IsNumber(v) == v.kind \in {"int", "float"} \/ v.s \in {"1", "2", "3"}

\* the numeric parameters of the rule are all coercible
Coercible(rule) ==
    CASE Windowed(rule) ->
            IsNumber(Param(rule, "threshold")) /\ IsNumber(Param(rule, "window_minutes"))
      [] rule.rule_type = "dns_anomaly" ->
            /\ IsNumber(Param(rule, "length_threshold"))
            /\ IsNumber(Param(rule, "entropy_threshold"))
      [] OTHER -> TRUE

T(rule) == PyInt(Param(rule, "threshold")).val

W(rule) == PyInt(Param(rule, "window_minutes")).val

\* the event passes the filter the claim gives the rule's type: the
\* category for both windowed types, match_field/match_value for the
\* threshold-count type
Matching(rule, e) ==
    /\ StrEq(e.category, Param(rule, "event_category"))
    /\ rule.rule_type = "failed_login_threshold" =>
          StrEq(DetailsGet(e.details, Param(rule, "match_field"), None),
                Param(rule, "match_value"))

KeyOf(rule, e) == DetailsGet(e.details, Param(rule, "group_by"), "unknown")

Keys(rule) == {KeyOf(rule, log[i]) : i \in 1..Len(log)}

\* the matching events of the input with grouping key k, in arrival order
Stream(r, k) ==
    SelectSeq(log, LAMBDA e : Matching(rules[r], e) /\ KeyOf(rules[r], e) = k)

\* the alerts of rule r for key k, in delivery order
AlertsOf(r, k) ==
    SelectSeq(alerts, LAMBDA a : a.rule = r /\ a.alert.id[1] = rules[r].id
                                   /\ a.alert.id[2] = k)

AlertsUpTo(r, k, n) == SelectSeq(AlertsOf(r, k), LAMBDA a : a.at <= n)

AlertsAt(r, k, n) == SelectSeq(AlertsOf(r, k), LAMBDA a : a.at = n)

\* the events i..j of stream M lie within w minutes back of the j-th
InWindow(M, i, j, w) ==
    \A x \in i..j :
        /\ M[x].timestamp <= M[j].timestamp
        /\ M[x].timestamp >= M[j].timestamp - Minutes(w)

\* every alert sequence so far was consumed to its end and no handler can
\* raise: at a quiescent point every retained rule has seen every event
FullyConsumed == ~abandoned /\ \A r \in 1..Len(rules) : Coercible(rules[r])

Quiescent == pc \in {"idle", "loop", "done"}

ThresholdRules ==
    {r \in 1..Len(rules) :
        /\ rules[r].rule_type = "failed_login_threshold"
        /\ Coercible(rules[r]) /\ T(rules[r]) >= 1 /\ W(rules[r]) >= 0}

\* C1, first cycle: the first T matching events of a key, all within the
\* window of the T-th, give exactly one alert, on the T-th, holding them
FirstCycle(r, k) ==
    LET M == Stream(r, k)
        t == T(rules[r])
    IN  (Len(M) >= t /\ InWindow(M, 1, t, W(rules[r]))) =>
            /\ Len(AlertsUpTo(r, k, M[t].n)) = 1
            /\ AlertsUpTo(r, k, M[t].n)[1].at = M[t].n
            /\ AlertsUpTo(r, k, M[t].n)[1].alert.events = SubSeq(M, 1, t)

\* C1, after the reset: the (T+1)-th gives no alert unless T = 1, and T
\* further events within the window of the 2T-th give the second alert
SecondCycle(r, k) ==
    LET M == Stream(r, k)
        t == T(rules[r])
    IN  (Len(M) >= t /\ InWindow(M, 1, t, W(rules[r]))) =>
            /\ (Len(M) >= t + 1 /\ t > 1) => AlertsAt(r, k, M[t + 1].n) = <<>>
            /\ (Len(M) >= 2 * t /\ InWindow(M, t + 1, 2 * t, W(rules[r]))) =>
                  /\ Len(AlertsUpTo(r, k, M[2 * t].n)) = 2
                  /\ AlertsUpTo(r, k, M[2 * t].n)[2].at = M[2 * t].n
                  /\ AlertsUpTo(r, k, M[2 * t].n)[2].alert.events
                        = SubSeq(M, t + 1, 2 * t)

\* C1: on a fresh engine whose alerts are all consumed, a threshold-count
\* rule with threshold T >= 1 alerts exactly once on the first T matching
\* events of a key that lie within the window of the T-th, on the T-th
\* event and with exactly those T events in arrival order; the (T+1)-th
\* matching event gives no alert unless T = 1; T further matching events
\* within the window give a second alert.
C1_ThresholdTriggerAndReset ==
    (Quiescent /\ FullyConsumed) =>
        \A r \in ThresholdRules : \A k \in Keys(rules[r]) :
            FirstCycle(r, k) /\ SecondCycle(r, k)

\* two full cycles of a rule with threshold above one have been seen
C1_Witness ==
    /\ Quiescent /\ FullyConsumed
    /\ \E r \in ThresholdRules : \E k \in Keys(rules[r]) :
          LET M == Stream(r, k)
              t == T(rules[r])
          IN  /\ t >= 2 /\ Len(M) >= 2 * t
              /\ InWindow(M, 1, t, W(rules[r]))
              /\ InWindow(M, t + 1, 2 * t, W(rules[r]))
              /\ M[1].timestamp < M[t].timestamp
              /\ Len(AlertsOf(r, k)) = 2

NonDecreasing(events) ==
    \A i, j \in 1..Len(events) : i <= j => events[i].timestamp <= events[j].timestamp

WindowedRules ==
    {r \in 1..Len(rules) :
        Windowed(rules[r]) /\ Coercible(rules[r]) /\ W(rules[r]) >= 0}

\* the bucket of rule r for key k in the window store
BucketOf(r, k) == Bucket(Partition(state, rules[r].id), k)

\* C2: when the events arrive with non-decreasing timestamps, every event
\* left in a bucket of a windowed rule with window W >= 0 is at most W
\* minutes older than the latest event of that bucket.
C2_WindowEviction ==
    NonDecreasing(log) =>
        \A r \in WindowedRules : \A k \in Keys(rules[r]) :
            \A i, j \in 1..Len(BucketOf(r, k)) :
                BucketOf(r, k)[i].timestamp
                    >= BucketOf(r, k)[j].timestamp - Minutes(W(rules[r]))

\* a bucket holds events of two instants after an older one was evicted
\* from it (no alert has cleared it)
C2_Witness ==
    /\ NonDecreasing(log)
    /\ \E r \in WindowedRules : \E k \in Keys(rules[r]) :
          /\ AlertsOf(r, k) = <<>>
          /\ Len(BucketOf(r, k)) >= 2
          /\ Len(BucketOf(r, k)) < Len(Stream(r, k))
          /\ BucketOf(r, k)[1].timestamp < BucketOf(r, k)[2].timestamp

ScanRules ==
    {r \in 1..Len(rules) :
        /\ rules[r].rule_type = "port_scan"
        /\ Coercible(rules[r]) /\ T(rules[r]) >= 1 /\ W(rules[r]) >= 0}

\* the values of distinct_field the events carry: an event without the
\* field carries none
Carried(rule, events) ==
    {events[i].details[Param(rule, "distinct_field").s] :
        i \in {j \in 1..Len(events) :
                 Param(rule, "distinct_field").s \in DOMAIN events[j].details}}

\* C3, trigger: the first T matching events of a key, within the window
\* of the T-th and carrying T pairwise distinct values, give exactly one
\* alert, on the T-th, over those T events, and the bucket is then empty
DistinctTrigger(r, k) ==
    LET M == Stream(r, k)
        t == T(rules[r])
    IN  (/\ Len(M) >= t
         /\ InWindow(M, 1, t, W(rules[r]))
         /\ Cardinality(Carried(rules[r], SubSeq(M, 1, t))) = t) =>
            /\ Len(AlertsUpTo(r, k, M[t].n)) = 1
            /\ AlertsUpTo(r, k, M[t].n)[1].at = M[t].n
            /\ AlertsUpTo(r, k, M[t].n)[1].alert.events = SubSeq(M, 1, t)
            /\ Len(M) = t => BucketOf(r, k) = <<>>

\* C3, no trigger: an alert of a distinct-value rule is only ever emitted
\* over events that carry at least T distinct values
DistinctNeeded(r) ==
    \A i \in 1..Len(alerts) :
        alerts[i].rule = r =>
            Cardinality(Carried(rules[r], alerts[i].alert.events)) >= T(rules[r])

\* C3 (the claim as stated; the code violates it): a distinct-value rule
\* with threshold T >= 1 alerts exactly once on T matching events of a key
\* that carry T pairwise distinct values of distinct_field, and never
\* alerts on events that carry fewer than T distinct values.
C3_DistinctValueTrigger ==
    /\ (Quiescent /\ FullyConsumed) =>
          \A r \in ScanRules : \A k \in Keys(rules[r]) : DistinctTrigger(r, k)
    /\ \A r \in ScanRules : DistinctNeeded(r)

\* C3, the part the code satisfies: the trigger on T distinct values
C3_TriggerOnly ==
    (Quiescent /\ FullyConsumed) =>
        \A r \in ScanRules : \A k \in Keys(rules[r]) : DistinctTrigger(r, k)

\* a distinct-value rule with threshold above one has alerted on T events
\* with T distinct values
C3_TriggerSeen ==
    /\ Quiescent /\ FullyConsumed
    /\ \E r \in ScanRules : \E k \in Keys(rules[r]) :
          /\ T(rules[r]) >= 2
          /\ Len(Stream(r, k)) = T(rules[r])
          /\ Cardinality(Carried(rules[r], Stream(r, k))) = T(rules[r])
          /\ Len(AlertsOf(r, k)) = 1

DnsRules ==
    {r \in 1..Len(rules) : rules[r].rule_type = "dns_anomaly" /\ Coercible(rules[r])}

L(rule) == PyInt(Param(rule, "length_threshold")).val

H(rule) == PyFloat(Param(rule, "entropy_threshold")).val

\* the alerts rule r gave on the n-th event of the input
AlertsBy(r, n) == SelectSeq(alerts, LAMBDA a : a.rule = r /\ a.at = n)

HasQuery(e) == "query" \in DOMAIN e.details

\* the rule gave exactly one alert on the n-th event, for that event alone
AloneAlert(r, n) ==
    /\ Len(AlertsBy(r, n)) = 1
    /\ AlertsBy(r, n)[1].alert.events = <<log[n]>>

\* C4 as stated (the code violates it): with the alerts all consumed, an
\* anomaly rule gives exactly one alert, for that event alone, on an event
\* of its category whose query is present if and only if the query is
\* longer than length_threshold or its entropy is above
\* entropy_threshold; otherwise it gives none.
C4_AnomalyStrictlyAbove ==
    (Quiescent /\ FullyConsumed) =>
        \A r \in DnsRules : \A n \in 1..Len(log) :
            (StrEq(log[n].category, Param(rules[r], "event_category"))
               /\ HasQuery(log[n])) =>
                IF \/ StrLen(log[n].details.query) > L(rules[r])
                   \/ EntropyCompare(log[n].details.query, H(rules[r])) > 0
                THEN AloneAlert(r, n)
                ELSE AlertsBy(r, n) = <<>>

\* C4 as amended: with the alerts all consumed, an anomaly rule gives
\* exactly one alert, for that event alone, on an event of its category
\* whose query is present and not empty if and only if the length of the
\* query is at least length_threshold or its entropy is at least
\* entropy_threshold; on any other event (another category, no query, an
\* empty query, both measures below their thresholds) it gives none,
\* whatever came before.
C4_AnomalyAtLeast ==
    (Quiescent /\ FullyConsumed) =>
        \A r \in DnsRules : \A n \in 1..Len(log) :
            IF /\ StrEq(log[n].category, Param(rules[r], "event_category"))
               /\ HasQuery(log[n])
               /\ log[n].details.query # ""
               /\ \/ StrLen(log[n].details.query) >= L(rules[r])
                  \/ EntropyCompare(log[n].details.query, H(rules[r])) >= 0
            THEN AloneAlert(r, n)
            ELSE AlertsBy(r, n) = <<>>

\* an anomaly rule has alerted on a query exactly at a threshold, after
\* an event it gave no alert for
C4_Witness ==
    /\ Quiescent /\ FullyConsumed
    /\ \E r \in DnsRules : \E m, n \in 1..Len(log) :
          /\ m < n
          /\ HasQuery(log[m]) /\ log[m].details.query # "" /\ AlertsBy(r, m) = <<>>
          /\ HasQuery(log[n]) /\ log[n].details.query # ""
          /\ StrLen(log[n].details.query) < L(rules[r])
          /\ EntropyCompare(log[n].details.query, H(rules[r])) = 0
          /\ AloneAlert(r, n)

\* the alerts delivered so far, as the caller holds them
Delivered == [i \in 1..Len(alerts) |-> alerts[i].alert]

\* the rules of the rule file that are switched off, and those that are on
Off == {i \in 1..Len(scenario.config) : ~scenario.config[i].enabled}

EnabledOnly == SelectSeq(scenario.config, LAMBDA rule : rule.enabled)

\* C5: a rule with enabled = false is never evaluated: no bucket under
\* its rule id holds an event, no delivered alert carries its id, and with
\* the alerts all consumed the alerts delivered are those of an engine
\* built from the enabled rules alone.
C5_DisabledInert ==
    /\ \A i \in Off :
          /\ scenario.config[i].id \notin DOMAIN state
          /\ \A j \in 1..Len(alerts) : alerts[j].alert.id[1] # scenario.config[i].id
    /\ (Quiescent /\ FullyConsumed) =>
          Delivered = ProcessEvents(EnabledOnly, log, 1, <<>>).alerts

\* a disabled threshold rule with threshold 1 has let a matching event
\* pass while an enabled rule alerted on it
C5_Witness ==
    /\ Quiescent /\ FullyConsumed /\ alerts # <<>>
    /\ \E i \in Off : \E n \in 1..Len(log) :
          /\ scenario.config[i].rule_type = "failed_login_threshold"
          /\ T(scenario.config[i]) = 1
          /\ Matching(scenario.config[i], log[n])

Unregistered == {r \in 1..Len(rules) : rules[r].rule_type \notin _HANDLERS}

Registered == SelectSeq(rules, LAMBDA rule : rule.rule_type \in _HANDLERS)

\* C6: an enabled rule whose rule_type is not registered is inert: no
\* alert comes from it, no error is raised on it, the window store gets no
\* entry under its id, and with the alerts all consumed the alerts and
\* the window store are those of an engine without that rule.
C6_UnregisteredInert ==
    /\ \A r \in Unregistered :
          /\ rules[r].id \notin DOMAIN state
          /\ \A j \in 1..Len(alerts) :
                alerts[j].rule # r /\ alerts[j].alert.id[1] # rules[r].id
          /\ ~(pc = "raised" /\ ri = r)
    /\ (Quiescent /\ FullyConsumed) =>
          /\ Delivered = ProcessEvents(Registered, log, 1, <<>>).alerts
          /\ state = ProcessEvents(Registered, log, 1, <<>>).state

\* the rules on both sides of an unregistered one have alerted on an
\* event that it has been given in between
C6_Witness ==
    /\ Quiescent /\ FullyConsumed
    /\ \E r \in Unregistered : \E i, j \in 1..Len(alerts) :
          /\ alerts[i].rule < r /\ r < alerts[j].rule
          /\ alerts[i].at = alerts[j].at

\* the position in the rule file of the rule with this id
PosInConfig(id) ==
    CHOOSE i \in 1..Len(scenario.config) : scenario.config[i].id = id

\* the occurrence (position in the input) of the event that triggered the
\* alert: the last of its events
Trigger(a) == a.alert.events[Len(a.alert.events)].n

\* C7: alerts are delivered in the order of their triggering events and,
\* for one event, in the order of the rules in the rule file; an alert is
\* delivered while its triggering event is the current one; and when the
\* first rule is about to be evaluated on an event, every alert of the
\* earlier events has been delivered.
C7_EmissionOrder ==
    /\ \A i, j \in 1..Len(alerts) :
          i < j =>
            \/ alerts[i].at < alerts[j].at
            \/ /\ alerts[i].at = alerts[j].at
               /\ PosInConfig(alerts[i].alert.id[1]) < PosInConfig(alerts[j].alert.id[1])
    /\ \A i \in 1..Len(alerts) :
          alerts[i].alert.events # <<>> /\ Trigger(alerts[i]) = alerts[i].at
    /\ (FullyConsumed /\ pc = "rules" /\ ri = 1) =>
          Delivered = ProcessEvents(rules, SubSeq(log, 1, Len(log) - 1), 1, <<>>).alerts

\* two rules have alerted on one event, and a rule on the next event
C7_Witness ==
    \E i, j, k \in 1..Len(alerts) :
        /\ i < j /\ j < k
        /\ alerts[i].at = alerts[j].at
        /\ alerts[j].at < alerts[k].at
        /\ alerts[k].rule = alerts[i].rule

Occurrences(a) == {a.alert.events[x].n : x \in 1..Len(a.alert.events)}

\* no event occurrence is in two alerts of one rule
NoSharedEvidence ==
    \A i, j \in 1..Len(alerts) :
        (i < j /\ alerts[i].rule = alerts[j].rule /\ Windowed(rules[alerts[i].rule])) =>
            Occurrences(alerts[i]) \cap Occurrences(alerts[j]) = {}

\* the windowed rule's handler, suspended at the yield of this alert, has
\* run on (or been dropped) and no event has been taken since
StepOver(a) ==
    /\ Windowed(rules[a.rule])
    /\ a.at = Len(log)
    /\ ~(pc = "yield" /\ ri = a.rule)

\* C8: when every alert sequence is consumed to its end, no event
\* occurrence is in the events of two alerts of one windowed rule, and
\* once the step that gave an alert for a bucket is over, that bucket is
\* empty.
C8_NoDuplicateEvidence ==
    ~abandoned =>
        /\ NoSharedEvidence
        /\ \A i \in 1..Len(alerts) :
              StepOver(alerts[i]) =>
                  BucketOf(alerts[i].rule, alerts[i].alert.id[2]) = <<>>

\* a windowed rule with threshold above one has alerted twice for one key
C8_Witness ==
    /\ ~abandoned /\ Quiescent
    /\ \E i, j \in 1..Len(alerts) :
          /\ i < j /\ alerts[i].rule = alerts[j].rule
          /\ Windowed(rules[alerts[i].rule])
          /\ alerts[i].alert.id[2] = alerts[j].alert.id[2]
          /\ Len(alerts[i].alert.events) >= 2
          /\ StepOver(alerts[j])

\* C9 (the claim as stated; the code violates it): the caller may drop
\* the alert sequence at any point: the bucket of the last alert it got is
\* then empty, as if the step had completed, and no later alert holds an
\* event occurrence that an earlier alert of the rule already held.
C9_AbandonSafe ==
    /\ NoSharedEvidence
    /\ \A i \in 1..Len(alerts) :
          StepOver(alerts[i]) =>
              BucketOf(alerts[i].rule, alerts[i].alert.id[2]) = <<>>

\* what the code does instead: a later call on the same engine delivers
\* again the events of the alert at which the caller stopped
C9_Redelivered ==
    /\ abandoned
    /\ \E i, j \in 1..Len(alerts) :
          /\ i < j /\ alerts[i].rule = alerts[j].rule
          /\ Occurrences(alerts[i]) \subseteq Occurrences(alerts[j])

\* registered rules with a numeric parameter that cannot be coerced
Uncoercible ==
    {r \in 1..Len(rules) : rules[r].rule_type \in _HANDLERS /\ ~Coercible(rules[r])}

SameEvents(store1, store2) ==
    \A id \in DOMAIN store1 \cup DOMAIN store2 :
        \A k \in DOMAIN Partition(store1, id) \cup DOMAIN Partition(store2, id) :
            Bucket(Partition(store1, id), k) = Bucket(Partition(store2, id), k)

\* the step that evaluates an uncoercible rule raises, delivers nothing
\* and leaves the events of every bucket as they were
RaisesWhenReached ==
    (pc = "rules" /\ ri \in Uncoercible) =>
        /\ pc' = "raised"
        /\ ri' = ri
        /\ alerts' = alerts
        /\ SameEvents(state, state')

\* C10: a registered, enabled rule with a numeric parameter that is not
\* coercible makes process() raise whenever an event reaches it (so the
\* first time too): no default stands in for the parameter, no alert ever
\* comes from the rule, no bucket under its id ever holds an event, and
\* the step that raises adds no event to any bucket.
C10_ConfigurationError ==
    /\ [](\A r \in Uncoercible :
            /\ \A j \in 1..Len(alerts) : alerts[j].rule # r
            /\ \A k \in DOMAIN Partition(state, rules[r].id) :
                  Partition(state, rules[r].id)[k] = <<>>)
    /\ [][RaisesWhenReached]_vars

\* an uncoercible rule has raised on an event on which an earlier rule
\* had alerted
C10_Witness ==
    /\ pc = "raised" /\ ri \in Uncoercible
    /\ \E j \in 1..Len(alerts) : alerts[j].at = Len(log) /\ alerts[j].rule < ri

\* the event has no field of that name
Lacks(e, field) == ~(field.kind = "str" /\ field.s \in DOMAIN e.details)

\* the step of a rule whose numeric parameters are coercible raises
\* nothing; an event without the grouping field that passes the filter is
\* the newest event of the bucket "unknown" and no other bucket changes;
\* an event of the rule's category without the match field of a
\* threshold-count rule, and an event without a query under an anomaly
\* rule, change no bucket and deliver no alert
AbsentFieldStep ==
    (pc = "rules" /\ rules[ri].rule_type \in _HANDLERS /\ Coercible(rules[ri])) =>
        LET rule == rules[ri]
            e == CurEvent
            before == Partition(state, rule.id)
            after == Partition(state', rule.id)
            Same(keys) == \A k \in keys : Bucket(after, k) = Bucket(before, k)
            AllKeys == DOMAIN before \cup DOMAIN after
        IN  /\ pc' # "raised"
            /\ (/\ Windowed(rule) /\ W(rule) >= 0 /\ Matching(rule, e)
                /\ Lacks(e, Param(rule, "group_by"))) =>
                  /\ Bucket(after, "unknown") # <<>>
                  /\ Bucket(after, "unknown")[Len(Bucket(after, "unknown"))] = e
                  /\ Same(AllKeys \ {"unknown"})
            /\ (/\ rule.rule_type = "failed_login_threshold"
                /\ StrEq(e.category, Param(rule, "event_category"))
                /\ Lacks(e, Param(rule, "match_field"))) =>
                  Same(AllKeys) /\ alerts' = alerts /\ pc' # "yield"
            /\ (rule.rule_type = "dns_anomaly" /\ Lacks(e, PStr("query"))) =>
                  Same(AllKeys) /\ alerts' = alerts /\ pc' # "yield"

\* C11: a field a rule refers to and an event lacks is never an error: no
\* step of a rule with coercible parameters raises; an event without the
\* group_by field that passes the filter goes to the bucket of the key
\* "unknown"; an event without the match field of a threshold-count rule
\* changes no window and gives no alert; an event without the target
\* field of an anomaly rule gives no alert.
C11_AbsentFields == [][AbsentFieldStep]_vars

\* a login without a result and a login without a username have been
\* processed; the second is the newest event of the bucket "unknown"
C11_Witness ==
    /\ pc = "loop" /\ Len(log) >= 2
    /\ \E r \in ThresholdRules :
          /\ \E i \in 1..Len(log) :
                /\ StrEq(log[i].category, Param(rules[r], "event_category"))
                /\ Lacks(log[i], Param(rules[r], "match_field"))
          /\ Matching(rules[r], CurEvent)
          /\ Lacks(CurEvent, Param(rules[r], "group_by"))
          /\ BucketOf(r, "unknown") # <<>>
          /\ BucketOf(r, "unknown")[Len(BucketOf(r, "unknown"))] = CurEvent

\* C12: the window store lives on the engine, not in a call of process():
\* after any number of calls, each consumed to its end, the alerts
\* delivered so far (ids, events, order) and the window store are those of
\* one call over all the events taken so far; an engine that has taken no
\* event has an empty store.
C12_SplitConsistent ==
    /\ Len(log) = 0 => \A id \in DOMAIN state : state[id] = <<>>
    /\ (Quiescent /\ FullyConsumed) =>
          /\ Delivered = ProcessAll(scenario.config, log).alerts
          /\ state = ProcessAll(scenario.config, log).state

\* a second call, started after a first one ended, has delivered an
\* alert that holds an event the first call had taken
C12_Witness ==
    /\ pc = "done" /\ FullyConsumed
    /\ split \in 1..(Len(log) - 1)
    /\ \E i \in 1..Len(alerts) :
          /\ alerts[i].at > split
          /\ \E j \in 1..Len(alerts[i].alert.events) :
                alerts[i].alert.events[j].n <= split

\* C13 (the claim as stated; the code violates it): in whatever order the
\* events arrive, once a matching event e is in a bucket of a rule with
\* window W (e is then the newest entry of the bucket), no event of that
\* bucket is older than e.timestamp - W minutes.
C13_EvictionAnyOrder ==
    \A r \in WindowedRules : \A k \in Keys(rules[r]) :
        LET bucket == BucketOf(r, k)
        IN  \A i \in 1..Len(bucket) :
                bucket[i].timestamp
                    >= bucket[Len(bucket)].timestamp - Minutes(W(rules[r]))

\* what the code does instead: an event that arrived late sits behind a
\* newer head, and popleft never reaches it
C13_StaleBehindHead ==
    \E r \in WindowedRules : \E k \in Keys(rules[r]) :
        LET bucket == BucketOf(r, k)
        IN  /\ Len(bucket) >= 3
            /\ bucket[1].timestamp >= bucket[Len(bucket)].timestamp - Minutes(W(rules[r]))
            /\ bucket[2].timestamp < bucket[Len(bucket)].timestamp - Minutes(W(rules[r]))

\* distinct-value rules whose parameters name a match field and value
FilteredScanRules ==
    {r \in ScanRules : {"match_field", "match_value"} \subseteq DOMAIN rules[r].parameters}

\* the filter of the threshold-count detector: category and match field
Passes(rule, e) ==
    /\ StrEq(e.category, Param(rule, "event_category"))
    /\ StrEq(DetailsGet(e.details, rule.parameters.match_field, None),
             rule.parameters.match_value)

\* C14 (the claim as stated; the code violates it): a distinct-value rule
\* filters as a threshold-count rule does: an event of another category,
\* or whose details[match_field] is not match_value, is in no bucket of
\* the rule and in no alert of the rule.
C14_SameFiltering ==
    \A r \in FilteredScanRules :
        /\ \A k \in Keys(rules[r]) : \A i \in 1..Len(BucketOf(r, k)) :
              Passes(rules[r], BucketOf(r, k)[i])
        /\ \A j \in 1..Len(alerts) :
              alerts[j].rule = r =>
                  \A i \in 1..Len(alerts[j].alert.events) :
                      Passes(rules[r], alerts[j].alert.events[i])

\* what the code does instead: only the category is tested, and an event
\* with another value of the match field completes an alert
C14_UnfilteredAlert ==
    \E r \in FilteredScanRules : \E j \in 1..Len(alerts) :
        /\ alerts[j].rule = r
        /\ \E i \in 1..Len(alerts[j].alert.events) :
              /\ StrEq(alerts[j].alert.events[i].category, Param(rules[r], "event_category"))
              /\ ~Passes(rules[r], alerts[j].alert.events[i])

\* a step of the evaluation of rule ri on the current event (the handler,
\* or the clear after its yield) leaves every bucket as it was, but for
\* the bucket of rule ri under the key of the event when the event passes
\* the filter of the rule
FrameStep ==
    (pc \in {"rules", "yield"}) =>
        LET rule == rules[ri]
            e == CurEvent
        IN  \A id \in DOMAIN state \cup DOMAIN state' :
                \A k \in DOMAIN Partition(state, id) \cup DOMAIN Partition(state', id) :
                    (id # rule.id \/ k # KeyOf(rule, e) \/ ~Matching(rule, e)) =>
                        Bucket(Partition(state', id), k) = Bucket(Partition(state, id), k)

\* the alerts and the bucket of rule r for key k are those the rule gives,
\* alone on a fresh engine, on the matching events of key k alone
OwnStreamOnly(r, k) ==
    LET alone == ProcessEvents(<<rules[r]>>, Stream(r, k), 1, <<>>)
    IN  /\ [i \in 1..Len(AlertsOf(r, k)) |-> AlertsOf(r, k)[i].alert] = alone.alerts
        /\ BucketOf(r, k) = Bucket(Partition(alone.state, rules[r].id), k)

\* windowed rules with coercible parameters
IndependentRules == {r \in 1..Len(rules) : Windowed(rules[r]) /\ Coercible(rules[r])}

\* C15: with unique rule ids, evaluating rule r on an event changes at
\* most the bucket (r, k) of the event's grouping key k; the buckets of
\* other rules and of other keys stay as they were, and an event that
\* does not pass the filter of r changes no bucket of r. So, when every
\* alert sequence is consumed, the alerts of r for k are a function of
\* the matching events of key k alone.
C15_BucketIndependence ==
    /\ [][FrameStep]_vars
    /\ []((Quiescent /\ FullyConsumed) =>
            \A r \in IndependentRules : \A k \in Keys(rules[r]) : OwnStreamOnly(r, k))

\* one key of a rule has alerted while another key of the rule holds an
\* older event, which is still in its bucket
C15_Witness ==
    /\ Quiescent /\ FullyConsumed
    /\ \E r \in IndependentRules : \E k1, k2 \in Keys(rules[r]) :
          /\ k1 # k2
          /\ BucketOf(r, k1) # <<>>
          /\ AlertsOf(r, k2) # <<>>
          /\ BucketOf(r, k1)[1].n < AlertsOf(r, k2)[1].at

\* every rule of the anomaly-scoring type, whatever its parameters
AnomalyRules == {r \in 1..Len(rules) : rules[r].rule_type = "dns_anomaly"}

\* a step of the evaluation of an anomaly rule changes no bucket
AnomalyStep ==
    (pc \in {"rules", "yield"} /\ ri \in AnomalyRules) => SameEvents(state, state')

\* C16: the anomaly-scoring detector keeps no window: no bucket under the
\* id of an anomaly rule ever holds an event, and the evaluation of an
\* anomaly rule changes no bucket of any rule.
C16_AnomalyStateless ==
    /\ [](\A r \in AnomalyRules :
            \A k \in DOMAIN Partition(state, rules[r].id) :
                Partition(state, rules[r].id)[k] = <<>>)
    /\ [][AnomalyStep]_vars

\* an anomaly rule has alerted twice, its partition of the store exists,
\* and a windowed rule holds an event taken before the second alert
C16_Witness ==
    \E r \in AnomalyRules : \E w \in IndependentRules : \E k \in Keys(rules[w]) :
        /\ rules[r].id \in DOMAIN state
        /\ Len(SelectSeq(alerts, LAMBDA a : a.rule = r)) >= 2
        /\ BucketOf(w, k) # <<>>
        /\ \E i \in 1..Len(alerts) :
              alerts[i].rule = r /\ BucketOf(w, k)[1].n < alerts[i].at

\* the alerts of rule r, in delivery order
AlertsOfRule(r) == SelectSeq(alerts, LAMBDA a : a.rule = r)

\* C17: with thresholds T >= 1 and every alert sequence consumed to its
\* end, once the engine is through with an event every bucket of a
\* threshold-count rule holds fewer than T events and every bucket of a
\* distinct-value rule fewer than T distinct values of distinct_field;
\* every alert of a threshold-count rule carries exactly T events and
\* the last of them is the event that triggered it.
C17_BelowThreshold ==
    FullyConsumed =>
        /\ Quiescent =>
              /\ \A r \in ThresholdRules : \A k \in Keys(rules[r]) :
                    Len(BucketOf(r, k)) < T(rules[r])
              /\ \A r \in ScanRules : \A k \in Keys(rules[r]) :
                    Cardinality(UniqueValues(BucketOf(r, k),
                                             Param(rules[r], "distinct_field")))
                        < T(rules[r])
        /\ \A r \in ThresholdRules : \A i \in 1..Len(AlertsOfRule(r)) :
              LET a == AlertsOfRule(r)[i]
              IN  /\ Len(a.alert.events) = T(rules[r])
                  /\ a.alert.events[T(rules[r])].n = a.at

\* a rule with threshold above one has alerted and its bucket holds
\* events again, one short of the threshold
C17_Witness ==
    /\ Quiescent /\ FullyConsumed
    /\ \E r \in ThresholdRules : \E k \in Keys(rules[r]) :
          /\ T(rules[r]) >= 2
          /\ AlertsOf(r, k) # <<>>
          /\ Len(BucketOf(r, k)) = T(rules[r]) - 1

\* a bucket of a distinct-value rule holds as many events as the
\* threshold, with fewer distinct values
C17_ScanBelow ==
    /\ Quiescent /\ FullyConsumed
    /\ \E r \in ScanRules : \E k \in Keys(rules[r]) :
          /\ Len(BucketOf(r, k)) >= T(rules[r])
          /\ Cardinality(UniqueValues(BucketOf(r, k), Param(rules[r], "distinct_field")))
                = T(rules[r]) - 1

\* all the alerts delivered so far come from one call of process(): no
\* call followed a call that had taken events, none was abandoned and
\* none can raise
OneRun == split = 0 /\ FullyConsumed

\* C18 (the claim as stated; the code violates it): two different alerts
\* of one call of process() never have the same id, so the file the
\* dispatcher names after the id of an alert is never written twice.
C18_UniqueIds ==
    OneRun =>
        \A i, j \in 1..Len(alerts) :
            i # j => alerts[i].alert.id # alerts[j].alert.id

\* what the code does instead: the id is rule id, key and whole second of
\* the triggering event, and two alerts of a rule for one key triggered
\* within the same second, over different events, share it
C18_SameIdTwice ==
    /\ OneRun
    /\ \E i, j \in 1..Len(alerts) :
          /\ i < j
          /\ alerts[i].alert.id = alerts[j].alert.id
          /\ alerts[i].rule = alerts[j].rule
          /\ Occurrences(alerts[i]) \cap Occurrences(alerts[j]) = {}

\* a call of process() that has raised is over: it takes no further
\* event, delivers no further alert and changes no bucket; the only step
\* left is a new call
AbortedStep ==
    (pc = "raised") =>
        /\ pc' = "loop"
        /\ log' = log /\ alerts' = alerts /\ state' = state

\* C19: a coercion error aborts the whole call of process(): once it is
\* raised the call delivers nothing more, for no rule and no event, and
\* no rule placed after the uncoercible rule ever alerts; at the time of
\* the error the alerts delivered are exactly those of the rules placed
\* before the raising rule, on the events up to and including the
\* current one.
C19_AbortsWholeRun ==
    /\ [](\A r \in Uncoercible : \A j \in 1..Len(alerts) : alerts[j].rule < r)
    /\ []((pc = "raised" /\ ~abandoned) =>
            Delivered = ProcessEvents(SubSeq(rules, 1, ri - 1), log, 1, <<>>).alerts)
    /\ [][AbortedStep]_vars

\* a call has raised on an event on which the rule before the raising
\* rule had alerted and the rule after it would have alerted too; an
\* earlier call had delivered an alert on an earlier event
C19_Witness ==
    /\ pc = "raised" /\ ~abandoned /\ ri \in Uncoercible
    /\ ri < Len(rules)
    /\ Matching(rules[ri + 1], CurEvent) /\ T(rules[ri + 1]) = 1
    /\ \E i, j \in 1..Len(alerts) :
          /\ alerts[i].at < alerts[j].at
          /\ alerts[j].at = Len(log) /\ alerts[j].rule < ri

====
